---- MODULE Spec2Model ----
(***************************************************************************)
(* Codebase Doctor (src/codebase_doctor.py): the repository scan, the      *)
(* architecture summary, the AI call with its degraded results, the        *)
(* document renderer and the direct-query / interactive paths.            *)
(***************************************************************************)
EXTENDS Integers, Sequences, FiniteSets, TLC

VARIABLES
    mode,              \* how the program is driven: run(), method calls, ask, interactive
    tree,              \* the repository on disk (never written by the program)
    manifests,         \* the manifest files at the repository root, as open() finds them
    pc,                \* position of the driver
    file_data,         \* self.file_data      : rel_path -> FileRecord
    key_order,         \* self.file_data.keys(): the keys in insertion order
    file_patterns,     \* self.file_patterns  : ext -> list of SampledFile
    stats,             \* self.stats          : counter name -> int
    walk_stack,        \* os.walk: directories still to be yielded
    cur_files,         \* os.walk: files of the yielded directory not yet looped over
    opened,            \* files the scan has opened so far
    scans,             \* completed scan_repo calls on this analyzer
    first_scan,        \* what the first completed scan left: FileRecord keys and counters
    listing,           \* outcome of the last `find` subprocess
    architecture_data, \* result of analyze_architecture
    ai_outcome,        \* outcome of the last AI call
    ai_calls,          \* number of requests.post calls made
    ai_result,         \* result of ai_analysis
    document,          \* the written output file
    steps,             \* the calls run() has made, in order
    questions,         \* interactive/ask: questions answered so far
    query,             \* interactive: the line read by input()
    response           \* interactive/ask: the last value returned by ask_ai_about_codebase

vars == <<mode, tree, manifests, pc, file_data, key_order, file_patterns, stats, walk_stack, cur_files,
          opened, scans, first_scan, listing, architecture_data, ai_outcome,
          ai_calls, ai_result, document, steps, questions, query, response>>

scanVars == <<file_data, key_order, file_patterns, stats, walk_stack, cur_files, opened, scans,
              first_scan>>
pipeVars == <<listing, architecture_data, ai_outcome, ai_calls, ai_result, document, steps>>
askVars  == <<questions, query, response>>

-----------------------------------------------------------------------------
(* Program constants *)

max_files_per_type == 25
SizeLimit == 1000000
ContentLimit == 100000
ProbeChars == 1024

excluded_dirs == {".git", "node_modules", "__pycache__", "venv", "dist", "build"}

(* Bounds of the model *)

MaxBulk == 26        \* number of extra .py files in the root of the large trees
MaxScans == 2        \* scan_repo calls made on one analyzer
MaxQuestions == 2    \* questions asked in one interactive session

-----------------------------------------------------------------------------
(* The repository tree.  Directory 0 is the root; 1 and 3 are its children  *)
(* (in listing order), 2 is a child of 1.  Files 1..4 are one per           *)
(* directory; files 5.. are the bulk files, listed in the root after 1.     *)

Dirs == 0 .. 3

Parent(d) == CASE d = 1 -> 0 [] d = 2 -> 1 [] OTHER -> 0

SubDirs(d) == CASE d = 0 -> <<1, 3>> [] d = 1 -> <<2>> [] OTHER -> <<>>

DirName(t, d) == CASE d = 1 -> t.n1 [] d = 2 -> t.n2 [] d = 3 -> "docs" [] OTHER -> "."

RECURSIVE DirPath(_, _)
DirPath(t, d) == IF d = 0 THEN <<>> ELSE Append(DirPath(t, Parent(d)), DirName(t, d))

Profiles ==
    { [kind |-> "text",     size |-> 2000,    badAt |-> -1],
      [kind |-> "edge",     size |-> 1000000, badAt |-> -1],
      [kind |-> "big",      size |-> 1000001, badAt |-> -1],
      [kind |-> "latefail", size |-> 300000,  badAt |-> 200000],
      [kind |-> "binary",   size |-> 2000,    badAt |-> 0] }

ProfileOf(k) == CHOOSE p \in Profiles : p.kind = k

Slots == 1 .. 4

SlotKinds(s) ==
    CASE s = 1 -> {"text", "edge", "big", "latefail", "binary"}
      [] s = 2 -> {"text", "edge", "big", "latefail", "binary"}
      [] s = 3 -> {"text", "big", "binary"}
      [] OTHER -> {"text", "latefail"}

Trees ==
    { [n1 |-> a, n2 |-> b, prof |-> p, bulk |-> m] :
        a \in {"src", "node_modules"}, b \in {"pkg", "dist"},
        p \in { q \in [Slots -> {"text", "edge", "big", "latefail", "binary"}] :
                  \A s \in Slots : q[s] \in SlotKinds(s) },
        m \in {0, MaxBulk} }

DefaultTree == [n1 |-> "src", n2 |-> "pkg", prof |-> [s \in Slots |-> "text"], bulk |-> 0]

FileIds(t) == 1 .. (4 + t.bulk)

FileDir(f) == CASE f = 2 -> 1 [] f = 3 -> 2 [] f = 4 -> 3 [] OTHER -> 0

FileName(f) ==
    CASE f = 1 -> [stem |-> "app",      n |-> 0, sfx |-> <<"py">>]
      [] f = 2 -> [stem |-> "util",     n |-> 0, sfx |-> <<"PY">>]
      [] f = 3 -> [stem |-> "index",    n |-> 0, sfx |-> <<"js">>]
      [] f = 4 -> [stem |-> "Makefile", n |-> 0, sfx |-> <<>>]
      [] OTHER -> [stem |-> "mod",      n |-> f - 4, sfx |-> <<"py">>]

FileProfile(t, f) == IF f \in Slots THEN ProfileOf(t.prof[f]) ELSE ProfileOf("text")

\* the files of directory d, in the order os.walk lists them
FilesIn(t, d) ==
    CASE d = 0 -> <<1>> \o [i \in 1 .. t.bulk |-> 4 + i]
      [] d = 1 -> <<2>>
      [] d = 2 -> <<3>>
      [] OTHER -> <<4>>

RelPath(t, f) == [dir |-> DirPath(t, FileDir(f)), name |-> FileName(f)]

RECURSIVE UnderExcluded(_, _)
UnderExcluded(t, d) ==
    IF d = 0 THEN FALSE
    ELSE DirName(t, d) \in excluded_dirs \/ UnderExcluded(t, Parent(d))

\* the text of a file: what its statements declare and where they stand
Stmts(t, f) ==
    << [kind |-> "import", id |-> <<"head", f>>, names |-> <<>>, at |-> 0, len |-> 20],
       [kind |-> "import", id |-> <<"os", 0>>, names |-> <<>>, at |-> 20, len |-> 10],
       [kind |-> "class",  id |-> <<"tail", f>>, names |-> <<>>,
        at |-> FileProfile(t, f).size - 20, len |-> 20] >>

-----------------------------------------------------------------------------
(* Helpers of scan_repo *)

Lower(s) ==
    CASE s = "PY" -> "py" [] s = "JS" -> "js" [] s = "TSX" -> "tsx"
      [] s = "App" -> "app" [] s = "Program" -> "program" [] s = "Startup" -> "startup"
      [] s = "Dockerfile" -> "dockerfile" [] s = "Makefile" -> "makefile"
      [] s = "README" -> "readme" [] OTHER -> s

\* os.path.splitext followed by `ext.lower()[1:] if ext else "no_extension"`
ExtOf(name) ==
    IF name.sfx = <<>> \/ (name.stem = "" /\ Len(name.sfx) = 1)
    THEN "no_extension"
    ELSE Lower(name.sfx[Len(name.sfx)])

\* _is_binary_file: f.read(1024) raises UnicodeDecodeError.  The files of the
\* modelled trees have their first undecodable byte at offset 0 or far beyond
\* the first buffered chunk, so the probe's outcome does not depend on how
\* much of the file the text layer decodes ahead.
is_binary_file(p) == p.badAt >= 0 /\ p.badAt < ProbeChars

\* os.path.getsize(file_path) > 1000000
Oversized(p) == p.size > SizeLimit

\* mutant of Skipped: `and` written for `or`
SkippedBoth(p) == is_binary_file(p) /\ Oversized(p)

Skipped(p) == is_binary_file(p) \/ Oversized(p)

\* f.read() of the whole file decodes
ReadDecodes(p) == p.badAt < 0

Min(a, b) == IF a < b THEN a ELSE b

Range(s) == {s[i] : i \in DOMAIN s}

\* content[:100000]
Truncate(t, f) ==
    [ chars |-> Min(FileProfile(t, f).size, ContentLimit),
      stmts |-> SelectSeq(Stmts(t, f), LAMBDA s : s.at + s.len <= ContentLimit) ]

Whitespace == {" ", "\n"}

\* str.strip()
RECURSIVE LStrip(_)
LStrip(s) == IF s /= <<>> /\ Head(s) \in Whitespace THEN LStrip(Tail(s)) ELSE s

RECURSIVE RStrip(_)
RStrip(s) ==
    IF s /= <<>> /\ s[Len(s)] \in Whitespace THEN RStrip(SubSeq(s, 1, Len(s) - 1)) ELSE s

Strip(s) == RStrip(LStrip(s))

\* defaultdict access
Get(d, k, default) == IF k \in DOMAIN d THEN d[k] ELSE default

Put(d, k, v) == [x \in DOMAIN d \cup {k} |-> IF x = k THEN v ELSE d[x]]

TotalKey == <<"total_files">>
TypeKey(ext) == <<"files_by_type_", ext>>

\* mutant of CountFile: the per-extension increment is lost
CountFileTotalOnly(st, ext) == Put(st, TotalKey, Get(st, TotalKey, 0) + 1)

\* self.stats["total_files"] += 1 ; self.stats[f"files_by_type_{ext}"] += 1
CountFile(st, ext) ==
    LET s1 == Put(st, TotalKey, Get(st, TotalKey, 0) + 1)
    IN  Put(s1, TypeKey(ext), Get(s1, TypeKey(ext), 0) + 1)

\* mutant of HasRoom: `<=` written for `<`
HasRoomOffByOne(samples) == Len(samples) <= max_files_per_type

\* len(self.file_patterns[ext]) < self.max_files_per_type
HasRoom(samples) == Len(samples) < max_files_per_type

\* mutant of Sample: the content is read with decode errors ignored
SampleIgnoringErrors(fp, t, f, ext) ==
    LET fp1 == Put(fp, ext, Get(fp, ext, <<>>))
    IN  IF HasRoom(fp1[ext])
        THEN Put(fp1, ext, Append(fp1[ext], [path |-> RelPath(t, f), content |-> Truncate(t, f)]))
        ELSE fp1

\* mutant of Sample: the new entry is inserted at the front of the list
SamplePrepend(fp, t, f, ext) ==
    LET fp1 == Put(fp, ext, Get(fp, ext, <<>>))
    IN  IF HasRoom(fp1[ext]) /\ ReadDecodes(FileProfile(t, f))
        THEN Put(fp1, ext, <<[path |-> RelPath(t, f), content |-> Truncate(t, f)]>> \o fp1[ext])
        ELSE fp1

\* lines 73-83: the sampling attempt for one accepted file
Sample(fp, t, f, ext) ==
    LET fp1 == Put(fp, ext, Get(fp, ext, <<>>))
    IN  IF HasRoom(fp1[ext]) /\ ReadDecodes(FileProfile(t, f))
        THEN Put(fp1, ext, Append(fp1[ext], [path |-> RelPath(t, f), content |-> Truncate(t, f)]))
        ELSE fp1

FileRecord(t, f, ext) == [path |-> RelPath(t, f), type |-> ext, size |-> FileProfile(t, f).size]

-----------------------------------------------------------------------------
\* no AI call has been made yet
\* no manifest file exists at the repository root
NoManifests ==
    [package_json |-> [state |-> "absent", sections |-> <<>>],
     req_files |-> [n \in {"requirements.txt", "Pipfile", "pyproject.toml", "setup.py"} |->
                      [state |-> "absent", lines |-> <<>>]]]

NoOutcome == [ok |-> FALSE, err |-> "none", reply |-> <<>>]

Init ==
    /\ mode \in {"run", "methods", "ask", "interactive"}
    /\ tree \in (IF mode \in {"run", "methods"} THEN Trees ELSE {DefaultTree})
    /\ manifests = NoManifests
    /\ pc = "start"
    /\ file_data = <<>>
    /\ key_order = <<>>
    /\ file_patterns = <<>>
    /\ stats = <<>>
    /\ walk_stack = <<>>
    /\ cur_files = <<>>
    /\ opened = {}
    /\ scans = 0
    /\ first_scan = [keys |-> {}, counts |-> <<>>]
    /\ listing = "none"
    /\ architecture_data = <<>>
    /\ ai_outcome = NoOutcome
    /\ ai_calls = 0
    /\ ai_result = <<>>
    /\ document = <<>>
    /\ steps = <<>>
    /\ questions = 0
    /\ query = "none"
    /\ response = [kind |-> "none", text |-> <<>>]

\* scan_repo is entered: os.walk(self.repo_path) starts at the root
ScanRepoBegin ==
    /\ \/ mode = "run" /\ pc = "start"
       \/ mode = "methods" /\ pc \in {"start", "scanned"} /\ scans < MaxScans
    /\ pc' = "walking"
    /\ walk_stack' = <<0>>
    /\ cur_files' = <<>>
    /\ steps' = Append(steps, "scan_repo")
    /\ UNCHANGED <<mode, tree, manifests, file_data, key_order, file_patterns, stats, opened, scans,
                   first_scan, listing, architecture_data, ai_outcome, ai_calls, ai_result, document>>
    /\ UNCHANGED askVars

\* mutant of KeptDirs: `dirs = [...]` rebinds the name and prunes nothing
KeptDirsUnpruned(t, d) == SubDirs(d)

\* dirs[:] = [d for d in dirs if d not in self.excluded_dirs]
KeptDirs(t, d) == SelectSeq(SubDirs(d), LAMBDA c : DirName(t, c) \notin excluded_dirs)

\* os.walk yields the next directory, top-down, and the loop prunes its dirs
WalkDir ==
    /\ pc = "walking" /\ cur_files = <<>> /\ walk_stack /= <<>>
    /\ LET d == Head(walk_stack)
       IN  /\ walk_stack' = KeptDirs(tree, d) \o Tail(walk_stack)
           /\ cur_files' = FilesIn(tree, d)
    /\ UNCHANGED <<mode, tree, manifests, pc, file_data, key_order, file_patterns, stats, opened, scans,
                   first_scan>>
    /\ UNCHANGED pipeVars
    /\ UNCHANGED askVars

\* one iteration of `for file in files` (lines 51-83)
ScanFile ==
    /\ pc = "walking" /\ cur_files /= <<>>
    /\ LET f == Head(cur_files)
           p == FileProfile(tree, f)
           ext == ExtOf(FileName(f))
       IN  /\ opened' = opened \cup {f}
           /\ IF Skipped(p)
              THEN UNCHANGED <<file_data, key_order, file_patterns, stats>>
              ELSE /\ stats' = CountFile(stats, ext)
                   /\ file_data' = Put(file_data, RelPath(tree, f), FileRecord(tree, f, ext))
                   /\ key_order' = IF RelPath(tree, f) \in DOMAIN file_data THEN key_order
                                   ELSE Append(key_order, RelPath(tree, f))
                   /\ file_patterns' = Sample(file_patterns, tree, f, ext)
    /\ cur_files' = Tail(cur_files)
    /\ UNCHANGED <<mode, tree, manifests, pc, walk_stack, scans, first_scan>>
    /\ UNCHANGED pipeVars
    /\ UNCHANGED askVars

\* the walk is exhausted: line 85 reads stats['total_files'] and scan_repo returns
ScanRepoEnd ==
    /\ pc = "walking" /\ cur_files = <<>> /\ walk_stack = <<>>
    /\ stats' = Put(stats, TotalKey, Get(stats, TotalKey, 0))
    /\ scans' = scans + 1
    /\ first_scan' = IF scans = 0 THEN [keys |-> DOMAIN file_data, counts |-> stats']
                     ELSE first_scan
    /\ pc' = "scanned"
    /\ UNCHANGED <<mode, tree, manifests, file_data, key_order, file_patterns, walk_stack, cur_files, opened>>
    /\ UNCHANGED pipeVars
    /\ UNCHANGED askVars

-----------------------------------------------------------------------------
(* analyze_architecture *)

ListingOutcomes == {"ok", "exit_nonzero", "not_found"}

Placeholder == << [indent |-> 0, text |-> "Directory structure unavailable."] >>

Hidden(name) == name \in {".git"}

FindPruned == {"node_modules", "__pycache__", "venv", "dist", "build"}

\* find -type d -not -path "*/\.*" -not -path "*/node_modules/*" ... : a directory
\* is listed unless a component is hidden or it lies below a pruned name
RECURSIVE BelowPruned(_, _)
BelowPruned(t, d) ==
    IF d = 0 \/ Parent(d) = 0 THEN FALSE
    ELSE DirName(t, Parent(d)) \in FindPruned \/ BelowPruned(t, Parent(d))

RECURSIVE HasHidden(_, _)
HasHidden(t, d) == IF d = 0 THEN FALSE ELSE Hidden(DirName(t, d)) \/ HasHidden(t, Parent(d))

FindListed(t) == {d \in Dirs \ {0} : ~HasHidden(t, d) /\ ~BelowPruned(t, d)}

NameRank(s) ==
    CASE s = ".git" -> 0 [] s = "__pycache__" -> 1 [] s = "build" -> 2 [] s = "dist" -> 3
      [] s = "docs" -> 4 [] s = "node_modules" -> 5 [] s = "pkg" -> 6 [] s = "src" -> 7
      [] OTHER -> 8

RECURSIVE PathLess(_, _)
PathLess(a, b) ==
    IF a = <<>> THEN b /= <<>>
    ELSE IF b = <<>> THEN FALSE
    ELSE IF Head(a) = Head(b) THEN PathLess(Tail(a), Tail(b))
    ELSE NameRank(Head(a)) < NameRank(Head(b))

\* dirs.sort()
RECURSIVE SortDirs(_, _)
SortDirs(t, ds) ==
    IF ds = {} THEN <<>>
    ELSE LET m == CHOOSE x \in ds : \A y \in ds \ {x} : PathLess(DirPath(t, x), DirPath(t, y))
         IN  <<m>> \o SortDirs(t, ds \ {m})

TreeLines(t) ==
    LET sorted == SortDirs(t, FindListed(t))
    IN  << [indent |-> 0, text |-> "."] >> \o
        [i \in 1 .. Len(sorted) |->
            [indent |-> Len(DirPath(t, sorted[i])), text |-> DirName(t, sorted[i])]]

\* _get_directory_structure: only subprocess.CalledProcessError is caught
get_directory_structure(t, out) ==
    CASE out = "ok"           -> [raised |-> FALSE, value |-> TreeLines(t)]
      [] out = "exit_nonzero" -> [raised |-> FALSE, value |-> Placeholder]
      [] OTHER                -> [raised |-> TRUE,  value |-> <<>>]

Categories(ext) ==
    CASE ext \in {"js", "jsx", "ts", "tsx"} -> {"imports", "exports", "components"}
      [] ext \in {"py"}                     -> {"imports", "classes", "functions"}
      [] ext \in {"java", "kt"}             -> {"imports", "classes"}
      [] ext \in {"go"}                     -> {"imports", "functions"}
      [] OTHER                              -> {}

KindOf(cat) ==
    CASE cat = "imports" -> "import" [] cat = "exports" -> "export"
      [] cat = "classes" -> "class" [] cat = "functions" -> "function"
      [] OTHER -> "component"

\* one extractor: the de-duplicated names its pattern finds in the sampled contents
Extract(files, cat) ==
    { s.id : s \in { x \in UNION { Range(files[i].content.stmts) : i \in DOMAIN files } :
                       x.kind = KindOf(cat) } }

\* what the JavaScript import pattern finds in one statement: the specifier of
\* `import 'x'`, `import('x')` and `require('x')`; `import a from 'x'` has
\* no quote after the keyword and is not matched
JsFound(s) == IF s.kind = "import" THEN {s.id} ELSE {}

\* what the two Python import patterns find in one statement: X of `import X`,
\* and of `from X import Y` both X (second pattern) and Y (first pattern)
PyFound(s) ==
    CASE s.kind = "import" -> {s.id}
      [] s.kind = "from"   -> {s.id} \cup { <<s.names[i]>> : i \in DOMAIN s.names }
      [] OTHER             -> {}

\* _extract_js_imports (lines 440-450): list(set(imports))
extract_js_imports(files) ==
    UNION { JsFound(s) : s \in UNION { Range(files[i].content.stmts) : i \in DOMAIN files } }

\* _extract_python_imports (lines 485-499): list(set(imports))
extract_python_imports(files) ==
    UNION { PyFound(s) : s \in UNION { Range(files[i].content.stmts) : i \in DOMAIN files } }

JsExts == {"js", "jsx", "ts", "tsx"}

extract_patterns(ext, files) ==
    [cat \in Categories(ext) |->
        IF cat = "imports" /\ ext \in JsExts THEN extract_js_imports(files)
        ELSE IF cat = "imports" /\ ext = "py" THEN extract_python_imports(files)
        ELSE Extract(files, cat)]

PatternsByType(fp) ==
    [ext \in {e \in DOMAIN fp : Len(fp[e]) > 0} |-> extract_patterns(ext, fp[ext])]

\* the pieces of a name that the entry-point patterns can tell apart
NameAtoms(w) ==
    CASE w = "" -> <<>>
      [] w = "myapp" -> <<"my", "app">>
      [] OTHER -> <<w>>

Digits == "0-9"

RECURSIVE Flatten(_)
Flatten(ss) == IF ss = <<>> THEN <<>> ELSE Head(ss) \o Flatten(Tail(ss))

\* the text of a relative path, os.path.relpath(file_path, self.repo_path), as
\* the sequence of its pieces: directory names, "/", name, ".", suffixes
PathAtoms(p) ==
    Flatten([i \in DOMAIN p.dir |-> NameAtoms(p.dir[i]) \o <<"/">>])
    \o NameAtoms(p.name.stem)
    \o (IF p.name.n > 0 THEN <<Digits>> ELSE <<>>)
    \o Flatten([i \in DOMAIN p.name.sfx |-> <<".", p.name.sfx[i]>>])

\* `.+` in a pattern
Some == ".+"

\* one alternative of a pattern matched against the whole of a text, letters
\* compared without case (re.IGNORECASE)
RECURSIVE MatchAll(_, _)
MatchAll(a, alt) ==
    IF alt = <<>> THEN a = <<>>
    ELSE IF a = <<>> THEN FALSE
    ELSE IF Head(alt) = Some
         THEN MatchAll(Tail(a), Tail(alt)) \/ MatchAll(Tail(a), alt)
         ELSE Lower(Head(a)) = Lower(Head(alt)) /\ MatchAll(Tail(a), Tail(alt))

\* re.search(r"(alt1|alt2|...)$", path, re.IGNORECASE): some alternative
\* matches from some position up to the end of the path
re_search(pattern, path) ==
    LET a == PathAtoms(path)
    IN  \E i \in 1 .. Len(a) : \E alt \in pattern : MatchAll(SubSeq(a, i, Len(a)), alt)

File(stem, ext) == <<stem, ".", ext>>

\* lines 323-328
backend_patterns ==
    << { File("app", "py"), File("server", "py"), File("main", "py"), File("index", "py"),
         File("application", "py") },
       { File("app", "js"), File("server", "js"), File("index", "js"), File("main", "js") },
       { File("app", "ts"), File("server", "ts"), File("index", "ts"), File("main", "ts") },
       { File("Program", "cs"), File("Startup", "cs") } >>

\* lines 331-335; `jsx?` and `tsx?` stand for two alternatives each
frontend_patterns ==
    << { File("index", "html") },
       { File("index", "js"), File("index", "jsx"), File("App", "js"), File("App", "jsx"),
         File("main", "js"), File("main", "jsx") },
       { File("index", "ts"), File("index", "tsx"), File("App", "ts"), File("App", "tsx"),
         File("main", "ts"), File("main", "tsx") } >>

\* lines 338-341
cli_patterns ==
    << { File("cli", "py"), File("__main__", "py"), <<"bin", "/", Some>> },
       { File("cli", "js"), <<"bin", "/", Some, ".", "js">> } >>

\* lines 344-349
config_patterns ==
    << { <<"config", ".", Some>>, <<Some, ".", "config", ".", Some>> },
       { File("package", "json"), File("tsconfig", "json"), File("poetry", "toml"),
         File("pyproject", "toml") },
       { <<"Dockerfile">>, File("docker-compose", "yml") },
       { <<Some, ".", "yaml">>, <<Some, ".", "yml">> } >>

EntryCategories == {"backend", "frontend", "cli", "config"}

PatternsOf(c) ==
    CASE c = "backend" -> backend_patterns [] c = "frontend" -> frontend_patterns
      [] c = "cli" -> cli_patterns [] OTHER -> config_patterns

\* mutant of CheckPatterns: only the first pattern of the category is tried
CheckFirstPatternOnly(list, patterns, path) ==
    IF patterns /= <<>> /\ re_search(Head(patterns), path) THEN Append(list, path) ELSE list

\* for pattern in X_patterns: if re.search(...): entry_points[X].append(path); break
RECURSIVE CheckPatterns(_, _, _)
CheckPatterns(list, patterns, path) ==
    IF patterns = <<>> THEN list
    ELSE IF re_search(Head(patterns), path) THEN Append(list, path)
    ELSE CheckPatterns(list, Tail(patterns), path)

\* `for file_path in self.file_data.keys()`, followed for one category
RECURSIVE ClassifyInto(_, _, _)
ClassifyInto(list, keys, patterns) ==
    IF keys = <<>> THEN list
    ELSE ClassifyInto(CheckPatterns(list, patterns, Head(keys)), Tail(keys), patterns)

\* mutant of RemoveEmpty: the categories are returned as they are
KeepEmpty(entry_points) == entry_points

\* {k: v for k, v in entry_points.items() if v}
RemoveEmpty(entry_points) ==
    [k \in {c \in DOMAIN entry_points : DOMAIN entry_points[c] /= {}} |-> entry_points[k]]

\* _identify_entry_points (lines 313-377)
identify_entry_points(keys) ==
    RemoveEmpty([c \in EntryCategories |-> ClassifyInto(<<>>, keys, PatternsOf(c))])

\* json.load of package.json and the two deps.update calls (lines 391-397):
\* raised when the file cannot be read or parsed, or when a section that is
\* present is not a mapping
LoadPackageJson(pj) ==
    LET present == SelectSeq(<<"dependencies", "devDependencies">>,
                             LAMBDA n : n \in DOMAIN pj.sections)
        bad == { i \in DOMAIN present : ~pj.sections[present[i]].mapping }
    IN  IF pj.state /= "parsed" \/ bad /= {}
        THEN [raised |-> TRUE, deps |-> {}]
        ELSE [raised |-> FALSE,
              deps |-> UNION { pj.sections[present[i]].keys : i \in DOMAIN present }]

\* mutant of SeedJavascript: a package of both sections is seeded once a section
SeedJavascriptSummed(table, pj) ==
    IF pj.state = "absent" \/ LoadPackageJson(pj).raised THEN table
    ELSE [k \in DOMAIN table \cup LoadPackageJson(pj).deps |->
            Cardinality({ n \in DOMAIN pj.sections : k \in pj.sections[n].keys })]

\* mutant of SeedJavascript: each section is seeded as soon as it is read
SeedJavascriptEager(table, pj) ==
    IF pj.state /= "parsed" THEN table
    ELSE LET good == { n \in DOMAIN pj.sections :
                         /\ pj.sections[n].mapping
                         /\ n = "devDependencies" /\ "dependencies" \in DOMAIN pj.sections
                               => pj.sections["dependencies"].mapping }
         IN  [k \in DOMAIN table \cup UNION { pj.sections[n].keys : n \in good } |-> 1]

\* lines 389-402: `dependencies["javascript"][dep] = 1` for every key of the
\* merged sections, nothing when the file is missing or the try block raised
SeedJavascript(table, pj) ==
    IF pj.state = "absent" THEN table
    ELSE IF LoadPackageJson(pj).raised THEN table
    ELSE [k \in DOMAIN table \cup LoadPackageJson(pj).deps |-> 1]

\* str.split(sep)[0]
BeforeFirst(line, sep) ==
    LET at == { i \in DOMAIN line : line[i] = sep }
    IN  IF at = {} THEN line ELSE SubSeq(line, 1, (CHOOSE i \in at : \A x \in at : i <= x) - 1)

\* mutant of Bump: the count starts one lower
BumpFromZero(table, pkg) == Put(table, pkg, Get(table, pkg, -1) + 1)

\* d[pkg] = d.get(pkg, 0) + 1
Bump(table, pkg) == Put(table, pkg, Get(table, pkg, 0) + 1)

\* lines 413-416: the lines of requirements.txt
RECURSIVE CountRequirements(_, _)
CountRequirements(table, lines) ==
    IF lines = <<>> THEN table
    ELSE LET line == Head(lines)
         IN  CountRequirements(
                 IF Strip(line) /= <<>> /\ Head(line) /= "#"
                 THEN Bump(table, Strip(BeforeFirst(BeforeFirst(line, "=="), ">=")))
                 ELSE table,
                 Tail(lines))

python_req_files == <<"requirements.txt", "Pipfile", "pyproject.toml", "setup.py">>

\* lines 405-418: every requirement file that exists is read; only
\* requirements.txt is parsed; a read that raises is logged and passed over
RECURSIVE SeedPython(_, _, _)
SeedPython(table, req, names) ==
    IF names = <<>> THEN table
    ELSE LET r == req[Head(names)]
         IN  SeedPython(
                 IF r.state = "readable" /\ Head(names) = "requirements.txt"
                 THEN CountRequirements(table, r.lines)
                 ELSE table,
                 req, Tail(names))

\* imp.startswith(".") or imp.startswith("/")
IsRelative(imp) == Head(imp) \in {".", "..", ""}

\* imp.split("/")[0] and imp.split(".")[0]
TopLevel(imp) == <<Head(imp)>>

\* `for imp in imports` (lines 425-428 and 433-435)
RECURSIVE TallyImports(_, _, _)
TallyImports(table, imports, js) ==
    IF imports = {} THEN table
    ELSE LET imp == CHOOSE x \in imports : TRUE
         IN  TallyImports(
                 IF js /\ IsRelative(imp) THEN table ELSE Bump(table, TopLevel(imp)),
                 imports \ {imp}, js)

\* `for file in files` (lines 423-424 and 431-432): the extractor is called
\* with the one file
RECURSIVE TallyFiles(_, _, _)
TallyFiles(table, files, js) ==
    IF files = <<>> THEN table
    ELSE TallyFiles(
             TallyImports(table,
                          IF js THEN extract_js_imports(<<Head(files)>>)
                          ELSE extract_python_imports(<<Head(files)>>),
                          js),
             Tail(files), js)

\* `for ext, files in self.file_patterns.items()` (lines 421-435)
RECURSIVE TallyExts(_, _, _)
TallyExts(dependencies, fp, exts) ==
    IF exts = {} THEN dependencies
    ELSE LET ext == CHOOSE e \in exts : TRUE
         IN  TallyExts(
                 IF ext \in JsExts
                 THEN [dependencies EXCEPT !.javascript = TallyFiles(@, fp[ext], TRUE)]
                 ELSE IF ext = "py"
                 THEN [dependencies EXCEPT !.python = TallyFiles(@, fp[ext], FALSE)]
                 ELSE dependencies,
                 fp, exts \ {ext})

\* _identify_dependencies (lines 379-438)
identify_dependencies(m, fp) ==
    RemoveEmpty(TallyExts([javascript |-> SeedJavascript(<<>>, m.package_json),
                           python     |-> SeedPython(<<>>, m.req_files, python_req_files),
                           java       |-> <<>>,
                           go         |-> <<>>],
                          fp, DOMAIN fp))

\* analyze_architecture (lines 87-112)
AnalyzeArchitecture ==
    /\ mode \in {"run", "methods"} /\ pc = "scanned"
    /\ \E out \in ListingOutcomes :
          LET r == get_directory_structure(tree, out)
          IN  /\ listing' = out
              /\ IF r.raised
                 THEN /\ pc' = "aborted"
                      /\ UNCHANGED architecture_data
                 ELSE /\ pc' = "analyzed"
                      /\ architecture_data' =
                            [directory_structure |-> r.value,
                             patterns_by_type |-> PatternsByType(file_patterns),
                             entry_points |-> identify_entry_points(key_order),
                             dependencies |-> identify_dependencies(manifests, file_patterns),
                             stats |-> stats]
    /\ steps' = Append(steps, "analyze_architecture")
    /\ UNCHANGED <<mode, tree, manifests, ai_outcome, ai_calls, ai_result, document>>
    /\ UNCHANGED scanVars
    /\ UNCHANGED askVars

-----------------------------------------------------------------------------
(* The AI call and the parsing of its reply *)

SectionKeys == {"overview", "patterns", "examples", "best_practices", "recommendations"}

HeaderOf(k) ==
    CASE k = "overview" -> "# Overview" [] k = "patterns" -> "# Patterns"
      [] k = "examples" -> "# Examples" [] k = "best_practices" -> "# Best Practices"
      [] OTHER -> "# Recommendations"

Headers == {HeaderOf(k) : k \in SectionKeys}

\* the replies of the AI service the model draws from: sequences of tokens,
\* a token being a header, a run of whitespace or a word
Replies ==
    { <<>>,
      <<"# Overview", "\n", "Hello">>,
      <<"# Overview", "a", "# Patterns", "b", "# Examples", "c",
        "# Best Practices", "d", "# Recommendations", "e">>,
      <<"intro", "# Recommendations", "r", "# Overview", " ", "o", "# Overview", "p">> }

AiErrors == {"ConnectionError", "HTTPError", "KeyError"}

\* what requests.post / raise_for_status / result["content"][0]["text"] produce
AiOutcomes ==
    { [ok |-> TRUE, err |-> "", reply |-> r] : r \in Replies } \cup
    { [ok |-> FALSE, err |-> e, reply |-> <<>>] : e \in AiErrors }

\* mutant of Lookahead: the end-of-text alternative `$` is left out
LookaheadNoEnd(text, j, k) ==
    j <= Len(text) /\ text[j] \in Headers \ {HeaderOf(k)}

\* mutant of Lookahead: the section's own header is a stop boundary too
LookaheadAnyHeader(text, j, k) ==
    \/ j = Len(text) + 1
    \/ j = Len(text) /\ text[j] = "\n"
    \/ j <= Len(text) /\ text[j] \in Headers

\* the lookahead (?=# A|# B|# C|# D|$) tried at position j for section k: one
\* of the other four headers starts at j, or `$` matches there (at the end of
\* the text, or before a newline that ends the text)
Lookahead(text, j, k) ==
    \/ j = Len(text) + 1
    \/ j = Len(text) /\ text[j] = "\n"
    \/ j <= Len(text) /\ text[j] \in Headers \ {HeaderOf(k)}

\* re.search(r'# X(.*?)(?=...)', text, re.DOTALL): the leftmost position where
\* the header stands and the lazy group can be ended by the lookahead; the
\* group is the shortest such; None (found = FALSE) if there is no position
SectionMatch(text, k) ==
    LET starts == { i \in 1 .. Len(text) :
                      /\ text[i] = HeaderOf(k)
                      /\ \E j \in (i + 1) .. (Len(text) + 1) : Lookahead(text, j, k) }
    IN  IF starts = {} THEN [found |-> FALSE, group |-> <<>>]
        ELSE LET start == CHOOSE i \in starts : \A x \in starts : i <= x
                 ends  == { j \in (start + 1) .. (Len(text) + 1) : Lookahead(text, j, k) }
                 end   == CHOOSE j \in ends : \A x \in ends : j <= x
             IN  [found |-> TRUE, group |-> SubSeq(text, start + 1, end - 1)]

\* X_match.group(1)
SectionBody(text, k) == SectionMatch(text, k).group

\* _parse_ai_analysis (lines 692-719)
parse_ai_analysis(text) ==
    [k \in {x \in SectionKeys : SectionMatch(text, x).found} |-> Strip(SectionBody(text, k))]

ErrorText == <<"Error during AI analysis">>

\* the dictionary of the except branch (lines 153-158)
FailureSections == {"overview", "patterns", "recommendations", "examples"}

\* ai_analysis (lines 114-158)
ai_analysis(o) ==
    IF o.ok THEN parse_ai_analysis(o.reply)
    ELSE [k \in FailureSections |-> ErrorText]

AiAnalysis ==
    /\ mode = "run" /\ pc = "analyzed"
    /\ \E o \in AiOutcomes :
          /\ ai_outcome' = o
          /\ ai_result' = ai_analysis(o)
    /\ ai_calls' = ai_calls + 1
    /\ pc' = "ai_done"
    /\ steps' = Append(steps, "ai_analysis")
    /\ UNCHANGED <<mode, tree, manifests, listing, architecture_data, document>>
    /\ UNCHANGED scanVars
    /\ UNCHANGED askVars

\* the lines generate_documentation writes (lines 160-240)
Render(arch, ai) ==
    [ overview           |-> Get(ai, "overview", <<"No overview available.">>),
      directory_structure |-> arch.directory_structure,
      total_files        |-> arch.stats[TotalKey],
      files_by_type      |-> { k \in DOMAIN arch.stats : k /= TotalKey /\ arch.stats[k] > 0 },
      patterns           |-> Get(ai, "patterns", <<"No patterns detected.">>),
      examples           |-> Get(ai, "examples", <<"No examples provided.">>),
      best_practices     |-> Get(ai, "best_practices", <<"No best practices defined.">>),
      recommendations    |-> Get(ai, "recommendations", <<"No recommendations provided.">>) ]

GenerateDocumentation ==
    /\ mode = "run" /\ pc = "ai_done"
    /\ document' = Render(architecture_data, ai_result)
    /\ pc' = "done"
    /\ steps' = Append(steps, "generate_documentation")
    /\ UNCHANGED <<mode, tree, manifests, listing, architecture_data, ai_outcome, ai_calls, ai_result>>
    /\ UNCHANGED scanVars
    /\ UNCHANGED askVars

-----------------------------------------------------------------------------
(* The direct-query path *)

Answers == {"answer A", "answer B"}

\* on this path the reply is returned as it is: a success carries one answer
QueryOutcomes ==
    { [ok |-> TRUE, err |-> "", reply |-> <<a>>] : a \in Answers } \cup
    { [ok |-> FALSE, err |-> e, reply |-> <<>>] : e \in AiErrors }

\* mutant of ask_ai_about_codebase: the handler catches only the transport's errors
ask_narrow_except(docReadable, o) ==
    IF ~docReadable \/ (~o.ok /\ o.err = "KeyError")
    THEN [raised |-> TRUE, value |-> [kind |-> "none", text |-> <<>>]]
    ELSE IF o.ok THEN [raised |-> FALSE, value |-> [kind |-> "answer", text |-> o.reply]]
    ELSE [raised |-> FALSE, value |-> [kind |-> "error", text |-> <<"Error: ", o.err>>]]

\* ask_ai_about_codebase (lines 760-823): the document is read outside the try,
\* the AI call inside `try ... except Exception`
ask_ai_about_codebase(docReadable, o) ==
    IF ~docReadable THEN [raised |-> TRUE, value |-> [kind |-> "none", text |-> <<>>]]
    ELSE IF o.ok THEN [raised |-> FALSE, value |-> [kind |-> "answer", text |-> o.reply]]
    ELSE [raised |-> FALSE, value |-> [kind |-> "error", text |-> <<"Error: ", o.err>>]]

\* main(): the `ask` command
AskCommand ==
    /\ mode = "ask" /\ pc = "start"
    /\ \E docReadable \in BOOLEAN, o \in QueryOutcomes :
          LET r == ask_ai_about_codebase(docReadable, o)
          IN  /\ IF docReadable
                 THEN ai_outcome' = o /\ ai_calls' = ai_calls + 1
                 ELSE UNCHANGED <<ai_outcome, ai_calls>>
              /\ IF r.raised
                 THEN pc' = "aborted" /\ UNCHANGED <<response, questions>>
                 ELSE pc' = "done" /\ response' = r.value /\ questions' = questions + 1
    /\ UNCHANGED <<mode, tree, manifests, listing, architecture_data, ai_result, document, steps, query>>
    /\ UNCHANGED scanVars

Queries == {"", "how do I add an endpoint?", "where is main?"}

\* interactive_mode: query = input(...); an empty line restarts the loop
ReadQuestion ==
    /\ mode = "interactive" /\ pc \in {"start", "prompt"}
    /\ questions < MaxQuestions
    /\ \E q \in Queries :
          /\ query' = q
          /\ pc' = IF q = "" THEN "prompt" ELSE "asking"
    /\ UNCHANGED <<mode, tree, manifests, questions, response>>
    /\ UNCHANGED scanVars
    /\ UNCHANGED pipeVars

\* interactive_mode: response = ask_ai_about_codebase(...); print; loop
AnswerQuestion ==
    /\ mode = "interactive" /\ pc = "asking"
    /\ \E docReadable \in BOOLEAN, o \in QueryOutcomes :
          LET r == ask_ai_about_codebase(docReadable, o)
          IN  /\ IF docReadable
                 THEN ai_outcome' = o /\ ai_calls' = ai_calls + 1
                 ELSE UNCHANGED <<ai_outcome, ai_calls>>
              /\ IF r.raised
                 THEN pc' = "aborted" /\ UNCHANGED <<response, questions>>
                 ELSE pc' = "prompt" /\ response' = r.value /\ questions' = questions + 1
    /\ UNCHANGED <<mode, tree, manifests, listing, architecture_data, ai_result, document, steps, query>>
    /\ UNCHANGED scanVars

\* interactive_mode: except KeyboardInterrupt: break
Interrupt ==
    /\ mode = "interactive" /\ pc \in {"start", "prompt", "asking"}
    /\ pc' = "exited"
    /\ UNCHANGED <<mode, tree, manifests>>
    /\ UNCHANGED scanVars
    /\ UNCHANGED pipeVars
    /\ UNCHANGED askVars

Next ==
    \/ ScanRepoBegin
    \/ WalkDir
    \/ ScanFile
    \/ ScanRepoEnd
    \/ AnalyzeArchitecture
    \/ AiAnalysis
    \/ GenerateDocumentation
    \/ AskCommand
    \/ ReadQuestion
    \/ AnswerQuestion
    \/ Interrupt

Spec == Init /\ [][Next]_vars

-----------------------------------------------------------------------------
(* _parse_ai_analysis on its own, applied to every reply text of bounded    *)
(* length over the tokens below.                                            *)

MaxReplyLen == 3

\* the tokens of a reply text: the five headers, a header in other case, a
\* word, a newline and a blank
Tokens == Headers \cup {"# overview", "Hello", "\n", " "}

ReplyTexts == UNION { [1 .. n -> Tokens] : n \in 0 .. MaxReplyLen }

InitParse ==
    /\ mode = "parse"
    /\ tree = DefaultTree
    /\ manifests = NoManifests
    /\ pc = "start"
    /\ file_data = <<>>
    /\ key_order = <<>>
    /\ file_patterns = <<>>
    /\ stats = <<>>
    /\ walk_stack = <<>>
    /\ cur_files = <<>>
    /\ opened = {}
    /\ scans = 0
    /\ first_scan = [keys |-> {}, counts |-> <<>>]
    /\ listing = "none"
    /\ architecture_data = <<>>
    /\ ai_outcome \in { [ok |-> TRUE, err |-> "", reply |-> r] : r \in ReplyTexts }
    /\ ai_calls = 0
    /\ ai_result = <<>>
    /\ document = <<>>
    /\ steps = <<>>
    /\ questions = 0
    /\ query = "none"
    /\ response = [kind |-> "none", text |-> <<>>]

\* sections = self._parse_ai_analysis(ai_analysis)
ParseReply ==
    /\ mode = "parse" /\ pc = "start"
    /\ ai_result' = parse_ai_analysis(ai_outcome.reply)
    /\ pc' = "parsed"
    /\ UNCHANGED <<mode, tree, manifests, listing, architecture_data, ai_outcome, ai_calls, document, steps>>
    /\ UNCHANGED scanVars
    /\ UNCHANGED askVars

NextParse == ParseReply

SpecParse == InitParse /\ [][NextParse]_vars

-----------------------------------------------------------------------------
(* _identify_entry_points on its own, applied to every FileRecord table of  *)
(* bounded size over the paths below.                                       *)

MaxPaths == 3

PathOf(dir, stem, sfx) == [dir |-> dir, name |-> [stem |-> stem, n |-> 0, sfx |-> sfx]]

EntryPaths ==
    { PathOf(<<>>, "app", <<"py">>),
      PathOf(<<>>, "myapp", <<"py">>),
      PathOf(<<>>, "app", <<"py", "bak">>),
      PathOf(<<"src">>, "index", <<"js">>),
      PathOf(<<"src">>, "App", <<"TSX">>),
      PathOf(<<"bin">>, "cli", <<"js">>),
      PathOf(<<>>, "config", <<"yaml">>),
      PathOf(<<>>, "Dockerfile", <<>>),
      PathOf(<<>>, "README", <<"md">>) }

\* the possible key orders of file_data: paths without repetition
KeyOrders ==
    UNION { { q \in [1 .. n -> EntryPaths] : \A i, j \in 1 .. n : q[i] = q[j] => i = j } :
            n \in 0 .. MaxPaths }

InitEntry ==
    /\ mode = "entry_points"
    /\ tree = DefaultTree
    /\ manifests = NoManifests
    /\ pc = "scanned"
    /\ key_order \in KeyOrders
    /\ file_data = [q \in Range(key_order) |->
                      [path |-> q, type |-> ExtOf(q.name), size |-> ProfileOf("text").size]]
    /\ file_patterns = <<>>
    /\ stats = <<>>
    /\ walk_stack = <<>>
    /\ cur_files = <<>>
    /\ opened = {}
    /\ scans = 1
    /\ first_scan = [keys |-> {}, counts |-> <<>>]
    /\ listing = "none"
    /\ architecture_data = <<>>
    /\ ai_outcome = NoOutcome
    /\ ai_calls = 0
    /\ ai_result = <<>>
    /\ document = <<>>
    /\ steps = <<>>
    /\ questions = 0
    /\ query = "none"
    /\ response = [kind |-> "none", text |-> <<>>]

\* entry_points = self._identify_entry_points()
IdentifyEntryPoints ==
    /\ mode = "entry_points" /\ pc = "scanned"
    /\ architecture_data' = [entry_points |-> identify_entry_points(key_order)]
    /\ pc' = "classified"
    /\ UNCHANGED <<mode, tree, manifests, listing, ai_outcome, ai_calls, ai_result, document, steps>>
    /\ UNCHANGED scanVars
    /\ UNCHANGED askVars

NextEntry == IdentifyEntryPoints

SpecEntry == InitEntry /\ [][NextEntry]_vars

-----------------------------------------------------------------------------
(* _identify_dependencies on its own, applied to bounded samples of the     *)
(* files below and to every state of the manifest files below.              *)

MaxSampled == 2
MaxReqLines == 2

Stmt(kind, id, names) == [kind |-> kind, id |-> id, names |-> names, at |-> 0, len |-> 0]

SampledFile(path, stmts) ==
    [path |-> path, content |-> [chars |-> ProfileOf("text").size, stmts |-> stmts]]

\* index.js:  import 'lodash/map'; import 'lodash/filter'; import './local'
\* util.js:   require('lodash/map'); import 'lodash/map';
\*            import React from 'react'; import '/abs/x'
\* main.ts:   import 'react-dom'; import '@scope/pkg'
\* app.py:    import os / import os.path / from flask import Flask
\* main.go:   import "fmt"
DepFiles ==
    { SampledFile(PathOf(<<"src">>, "index", <<"js">>),
                  << Stmt("import", <<"lodash", "map">>, <<>>),
                     Stmt("import", <<"lodash", "filter">>, <<>>),
                     Stmt("import", <<".", "local">>, <<>>) >>),
      SampledFile(PathOf(<<"src">>, "util", <<"js">>),
                  << Stmt("import", <<"lodash", "map">>, <<>>),
                     Stmt("import", <<"lodash", "map">>, <<>>),
                     Stmt("import_from", <<"react">>, <<"React">>),
                     Stmt("import", <<"", "abs", "x">>, <<>>) >>),
      SampledFile(PathOf(<<>>, "main", <<"ts">>),
                  << Stmt("import", <<"react-dom">>, <<>>),
                     Stmt("import", <<"@scope", "pkg">>, <<>>) >>),
      SampledFile(PathOf(<<>>, "app", <<"py">>),
                  << Stmt("import", <<"os">>, <<>>),
                     Stmt("import", <<"os", "path">>, <<>>),
                     Stmt("from", <<"flask">>, <<"Flask">>) >>),
      SampledFile(PathOf(<<>>, "main", <<"go">>),
                  << Stmt("import", <<"fmt">>, <<>>) >>) }

Samples ==
    UNION { { q \in [1 .. n -> DepFiles] : \A i, j \in 1 .. n : q[i] = q[j] => i = j } :
            n \in 0 .. MaxSampled }

\* self.file_patterns holding the sampled files q, each under its extension
PatternsFrom(q) ==
    [e \in { ExtOf(q[i].path.name) : i \in DOMAIN q } |->
        SelectSeq(q, LAMBDA x : ExtOf(x.path.name) = e)]

Section(keys) == [mapping |-> TRUE, keys |-> keys]

\* a section that is not a mapping, e.g. "devDependencies": ["x"]
BadSection == [mapping |-> FALSE, keys |-> {}]

SectionMaps ==
    { [n \in D |-> IF n = "dependencies" THEN a ELSE b] :
        D \in SUBSET {"dependencies", "devDependencies"},
        a \in { Section({<<"lodash">>, <<"@scope/pkg">>}), BadSection },
        b \in { Section({}), Section({<<"lodash">>, <<"react">>}), BadSection } }

PackageJsons ==
    { [state |-> st, sections |-> <<>>] : st \in {"absent", "unreadable", "corrupt"} } \cup
    { [state |-> "parsed", sections |-> m] : m \in SectionMaps }

ReqLines ==
    { <<"flask", "==", "2.0">>, <<"flask", " ", ">=", "1.0">>, <<"#", " ", "note">>,
      <<" ", "#", "x">>, <<>> }

RequirementsTxts ==
    { [state |-> st, lines |-> <<>>] : st \in {"absent", "unreadable"} } \cup
    { [state |-> "readable", lines |-> l] :
        l \in UNION { [1 .. n -> ReqLines] : n \in 0 .. MaxReqLines } }

Pipfiles == { [state |-> st, lines |-> <<>>] : st \in {"absent", "unreadable"} }

ManifestStates ==
    { [package_json |-> pj,
       req_files |-> [n \in DOMAIN NoManifests.req_files |->
                        IF n = "requirements.txt" THEN rq
                        ELSE IF n = "Pipfile" THEN pf
                        ELSE NoManifests.req_files[n]]] :
        pj \in PackageJsons, rq \in RequirementsTxts, pf \in Pipfiles }

InitDeps ==
    /\ mode = "dependencies"
    /\ tree = DefaultTree
    /\ manifests \in ManifestStates
    /\ pc = "scanned"
    /\ file_data = <<>>
    /\ key_order = <<>>
    /\ file_patterns \in { PatternsFrom(q) : q \in Samples }
    /\ stats = <<>>
    /\ walk_stack = <<>>
    /\ cur_files = <<>>
    /\ opened = {}
    /\ scans = 1
    /\ first_scan = [keys |-> {}, counts |-> <<>>]
    /\ listing = "none"
    /\ architecture_data = <<>>
    /\ ai_outcome = NoOutcome
    /\ ai_calls = 0
    /\ ai_result = <<>>
    /\ document = <<>>
    /\ steps = <<>>
    /\ questions = 0
    /\ query = "none"
    /\ response = [kind |-> "none", text |-> <<>>]

\* dependencies = self._identify_dependencies()
IdentifyDependencies ==
    /\ mode = "dependencies" /\ pc = "scanned"
    /\ architecture_data' = [dependencies |-> identify_dependencies(manifests, file_patterns)]
    /\ pc' = "tallied"
    /\ UNCHANGED <<mode, tree, manifests, listing, ai_outcome, ai_calls, ai_result, document, steps>>
    /\ UNCHANGED scanVars
    /\ UNCHANGED askVars

NextDeps == IdentifyDependencies

SpecDeps == InitDeps /\ [][NextDeps]_vars

-----------------------------------------------------------------------------
(* Reference notions the properties below are stated with, written from the *)
(* tree alone.                                                              *)

ProbeFails(t, f) == FileProfile(t, f).badAt \in 0 .. (ProbeChars - 1)

TooLarge(t, f) == FileProfile(t, f).size > SizeLimit

LateDecodeFailure(t, f) == FileProfile(t, f).badAt >= ProbeChars

Accepted(t) ==
    { f \in FileIds(t) : ~UnderExcluded(t, FileDir(f)) /\ ~ProbeFails(t, f) /\ ~TooLarge(t, f) }

AcceptedOf(t, ext) == { f \in Accepted(t) : ExtOf(FileName(f)) = ext }

AllExts(t) == { ExtOf(FileName(f)) : f \in FileIds(t) }

SampledPaths(fp) == UNION { { fp[e][i].path : i \in DOMAIN fp[e] } : e \in DOMAIN fp }

PatternIds(arch) ==
    IF arch = <<>> THEN {}
    ELSE UNION { UNION { arch.patterns_by_type[e][c] : c \in DOMAIN arch.patterns_by_type[e] } :
                 e \in DOMAIN arch.patterns_by_type }

RecordedIn(fd, t, f) ==
    /\ RelPath(t, f) \in DOMAIN fd
    /\ fd[RelPath(t, f)] =
          [path |-> RelPath(t, f), type |-> ExtOf(FileName(f)), size |-> FileProfile(t, f).size]

\* the loop of scan_repo is about to process the file at the head of cur_files
AtFile == pc = "walking" /\ cur_files /= <<>>

-----------------------------------------------------------------------------
\* C1: after any sequence of scan_repo runs, every extension holds at most
\* max_files_per_type SampledFile entries in file_patterns.
C1_SampleCap ==
    \A e \in DOMAIN file_patterns : Len(file_patterns[e]) <= max_files_per_type

\* the cap has been hit: more files of the extension were accepted than are held
C1_Witness ==
    \E e \in DOMAIN file_patterns :
        /\ Len(file_patterns[e]) = max_files_per_type
        /\ Get(stats, TypeKey(e), 0) > max_files_per_type

\* C2: after a second scan_repo of the unchanged tree the FileRecord key set and
\* the per-extension counts equal those the first scan left.
C2_Idempotent ==
    (pc = "scanned" /\ scans >= 2) =>
        /\ DOMAIN file_data = first_scan.keys
        /\ \A k \in DOMAIN stats \ {TotalKey} : stats[k] = Get(first_scan.counts, k, 0)

\* C3: a file larger than 1,000,000 bytes is never a FileRecord key, never
\* sampled, never contributes an identifier to a PatternSet, and the step of the
\* scan that meets it changes no counter.
C3_OversizedSkipped ==
    /\ [](\A f \in FileIds(tree) :
             TooLarge(tree, f) =>
                /\ RelPath(tree, f) \notin DOMAIN file_data
                /\ RelPath(tree, f) \notin SampledPaths(file_patterns)
                /\ PatternIds(architecture_data) \cap {<<"head", f>>, <<"tail", f>>} = {})
    /\ [][(AtFile /\ TooLarge(tree, Head(cur_files))) =>
             UNCHANGED <<stats, file_data, file_patterns>>]_vars

\* an oversized text file was met by the scan and the summary has been built
C3_Witness ==
    /\ pc = "analyzed"
    /\ \E f \in opened : TooLarge(tree, f) /\ ~ProbeFails(tree, f)
    /\ PatternIds(architecture_data) /= {}

\* C4: each step of the scan adds exactly one to total_files and one to the
\* counter of the file's extension when the file is accepted, sampled or not,
\* and changes no counter when it is rejected; so a completed scan has counted
\* every accepted file outside the excluded directories once per scan.
C4_CountedOnce ==
    /\ [][AtFile =>
             LET f == Head(cur_files)
                 ext == ExtOf(FileName(f))
             IN  IF ProbeFails(tree, f) \/ TooLarge(tree, f)
                 THEN stats' = stats
                 ELSE /\ Get(stats', TotalKey, 0) = Get(stats, TotalKey, 0) + 1
                      /\ Get(stats', TypeKey(ext), 0) = Get(stats, TypeKey(ext), 0) + 1
                      /\ \A k \in DOMAIN stats' \ {TotalKey, TypeKey(ext)} :
                            k \in DOMAIN stats /\ stats'[k] = stats[k]]_vars
    /\ [](pc = "scanned" =>
             /\ Get(stats, TotalKey, 0) = scans * Cardinality(Accepted(tree))
             /\ \A e \in AllExts(tree) :
                   Get(stats, TypeKey(e), 0) = scans * Cardinality(AcceptedOf(tree, e)))

\* one scan is complete; an accepted file was counted and recorded but is not in
\* the sample, and a rejected file was met
C4_Witness ==
    /\ pc = "scanned" /\ scans = 1
    /\ \E f \in Accepted(tree) :
          RecordedIn(file_data, tree, f) /\ RelPath(tree, f) \notin SampledPaths(file_patterns)
    /\ \E f \in opened : ProbeFails(tree, f) \/ TooLarge(tree, f)

\* C5: when the binary probe of an accepted file succeeds and the read of its
\* whole content fails to decode, the step records the file and counts it as
\* for any accepted file, adds nothing to the sample, and the scan goes on to
\* the next file.
C5_DecodeFailureSkipsSampleOnly ==
    [][(AtFile /\ LateDecodeFailure(tree, Head(cur_files)) /\ ~TooLarge(tree, Head(cur_files))) =>
          LET f == Head(cur_files)
              ext == ExtOf(FileName(f))
          IN  /\ RecordedIn(file_data', tree, f)
              /\ Get(stats', TotalKey, 0) = Get(stats, TotalKey, 0) + 1
              /\ Get(stats', TypeKey(ext), 0) = Get(stats, TypeKey(ext), 0) + 1
              /\ Get(file_patterns', ext, <<>>) = Get(file_patterns, ext, <<>>)
              /\ \A e \in DOMAIN file_patterns : Get(file_patterns', e, <<>>) = file_patterns[e]
              /\ pc' = "walking" /\ cur_files' = Tail(cur_files)]_vars

\* a file whose content read failed while its extension still had room: it is
\* recorded, not sampled, and the scan has run to its end
C5_Witness ==
    /\ pc = "scanned" /\ scans = 1
    /\ \E f \in opened :
          /\ LateDecodeFailure(tree, f) /\ ~TooLarge(tree, f)
          /\ RecordedIn(file_data, tree, f)
          /\ RelPath(tree, f) \notin SampledPaths(file_patterns)
          /\ Len(file_patterns[ExtOf(FileName(f))]) < max_files_per_type
          /\ \E g \in opened : g > f

\* C6: no directory at or below an excluded name is ever walked, and no file
\* beneath one is ever opened, recorded or sampled.
C6_ExcludedNeverVisited ==
    /\ \A i \in DOMAIN walk_stack : ~UnderExcluded(tree, walk_stack[i])
    /\ \A i \in DOMAIN cur_files : ~UnderExcluded(tree, FileDir(cur_files[i]))
    /\ \A f \in FileIds(tree) :
          UnderExcluded(tree, FileDir(f)) =>
             /\ f \notin opened
             /\ RelPath(tree, f) \notin DOMAIN file_data
             /\ RelPath(tree, f) \notin SampledPaths(file_patterns)

\* a scan is complete over a tree whose excluded directory holds a file and a
\* sub-directory of an ordinary name, and the walk went on to the next sibling
C6_Witness ==
    /\ pc = "scanned"
    /\ tree.n1 \in excluded_dirs /\ tree.n2 \notin excluded_dirs
    /\ 4 \in opened

\* C7: when the AI call fails, ai_analysis returns a placeholder in which every
\* one of the five narrative sections is the error string.
C7_UniformPlaceholder ==
    (mode = "run" /\ pc \in {"ai_done", "done"} /\ ~ai_outcome.ok) =>
        \A k \in SectionKeys : k \in DOMAIN ai_result /\ ai_result[k] = ErrorText

\* C8: whenever the directory listing fails or is unavailable,
\* _get_directory_structure returns the placeholder and analyze_architecture
\* completes with the rest of the summary.
C8_ListingFailureTolerated ==
    listing \in {"exit_nonzero", "not_found"} =>
        /\ pc /= "aborted"
        /\ architecture_data /= <<>>
        /\ architecture_data.directory_structure = Placeholder
        /\ architecture_data.stats = stats

\* C9: a run that has ended made the four calls in order, made the AI call
\* exactly once, and wrote the document.
C9_RunWritesDocument ==
    (mode = "run" /\ pc \in {"done", "aborted"}) =>
        /\ steps = <<"scan_repo", "analyze_architecture", "ai_analysis",
                     "generate_documentation">>
        /\ ai_calls = 1
        /\ document /= <<>>

\* C10: on the direct-query path a failed AI call makes ask_ai_about_codebase
\* return the formatted error string; in interactive mode the loop then stands
\* at the prompt again.
C10_QueryFailureReturnsError ==
    [][(mode \in {"ask", "interactive"} /\ ai_calls' = ai_calls + 1 /\ ~ai_outcome'.ok) =>
          /\ response' = [kind |-> "error", text |-> <<"Error: ", ai_outcome'.err>>]
          /\ questions' = questions + 1
          /\ (mode = "interactive" => pc' = "prompt")]_vars

\* a question failed and the next question has been read
C10_Witness ==
    /\ mode = "interactive" /\ pc = "asking"
    /\ questions >= 1 /\ response.kind = "error"

-----------------------------------------------------------------------------
(* The order in which one scan meets the files: the directory's own files,  *)
(* then each sub-directory of a name that is not excluded, top-down.        *)

RECURSIVE WalkFrom(_, _)
RECURSIVE WalkEach(_, _)
WalkEach(t, ds) ==
    IF ds = <<>> THEN <<>>
    ELSE (IF DirName(t, Head(ds)) \in excluded_dirs THEN <<>> ELSE WalkFrom(t, Head(ds)))
         \o WalkEach(t, Tail(ds))
WalkFrom(t, d) == FilesIn(t, d) \o WalkEach(t, SubDirs(d))

WalkOrder(t) == WalkFrom(t, 0)

FirstN(s, n) == SubSeq(s, 1, Min(n, Len(s)))

SamplePathsOf(fp, e) == [i \in DOMAIN Get(fp, e, <<>>) |-> fp[e][i].path]

PathsOf(t, fs) == [i \in DOMAIN fs |-> RelPath(t, fs[i])]

AcceptedInOrder(t, e) ==
    SelectSeq(WalkOrder(t), LAMBDA f : f \in Accepted(t) /\ ExtOf(FileName(f)) = e)

DecodableInOrder(t, e) ==
    SelectSeq(AcceptedInOrder(t, e), LAMBDA f : FileProfile(t, f).badAt < 0)

\* C19 as stated: after one scan the sample of each extension is the first
\* min(N, number of accepted files) accepted files of the extension in walk
\* order.
C19_FirstAccepted ==
    (pc = "scanned" /\ scans = 1) =>
        \A e \in AllExts(tree) :
            SamplePathsOf(file_patterns, e) =
                PathsOf(tree, FirstN(AcceptedInOrder(tree, e), max_files_per_type))

\* C19 amended: after one scan the sample of each extension is the first
\* min(N, number of accepted files whose content decodes) accepted files of the
\* extension whose content decodes, in walk order; an accepted file whose
\* content read fails takes no place in the sample.
C19_FirstDecodable ==
    (pc = "scanned" /\ scans = 1) =>
        \A e \in AllExts(tree) :
            SamplePathsOf(file_patterns, e) =
                PathsOf(tree, FirstN(DecodableInOrder(tree, e), max_files_per_type))

\* one scan is complete; an extension had more decodable files than the cap and
\* an accepted file of it that does not decode was met among the first
C19_Witness ==
    /\ pc = "scanned" /\ scans = 1
    /\ \E e \in AllExts(tree) :
          /\ Len(DecodableInOrder(tree, e)) > max_files_per_type
          /\ Len(SamplePathsOf(file_patterns, e)) = max_files_per_type
          /\ LateDecodeFailure(tree, Head(AcceptedInOrder(tree, e)))

-----------------------------------------------------------------------------
\* C11: parsing completes for every reply text and returns a mapping whose
\* keys are among the five section keys, a key being present exactly when its
\* header occurs in the text.
C11_ParseTotal ==
    pc = "parsed" =>
        /\ DOMAIN ai_result \subseteq SectionKeys
        /\ \A k \in SectionKeys :
              k \in DOMAIN ai_result <=> HeaderOf(k) \in Range(ai_outcome.reply)

\* a text has been parsed in which a header is the last thing, another header
\* is repeated and a third is absent
C11_Witness ==
    /\ pc = "parsed"
    /\ Len(ai_outcome.reply) = MaxReplyLen
    /\ ai_outcome.reply[MaxReplyLen] \in Headers
    /\ ai_outcome.reply[1] = ai_outcome.reply[2]
    /\ ai_outcome.reply[1] \in Headers \ {ai_outcome.reply[MaxReplyLen]}
    /\ DOMAIN ai_result /= {} /\ DOMAIN ai_result /= SectionKeys

\* the text between the first occurrence of the header of k and the next
\* occurrence of one of the other four headers, or the end of the text
BetweenHeaders(text, k) ==
    LET first == CHOOSE i \in 1 .. Len(text) :
                    text[i] = HeaderOf(k) /\ \A j \in 1 .. (i - 1) : text[j] /= HeaderOf(k)
        later == { j \in (first + 1) .. Len(text) :
                     \E o \in SectionKeys \ {k} : text[j] = HeaderOf(o) }
    IN  IF later = {} THEN SubSeq(text, first + 1, Len(text))
        ELSE SubSeq(text, first + 1, (CHOOSE j \in later : \A x \in later : j <= x) - 1)

\* r is s without its leading and trailing whitespace
IsTrimOf(r, s) ==
    /\ r = <<>> \/ (r[1] \notin Whitespace /\ r[Len(r)] \notin Whitespace)
    /\ \E i \in 0 .. Len(s) : \E j \in 0 .. (Len(s) - i) :
          /\ r = SubSeq(s, i + 1, Len(s) - j)
          /\ \A x \in 1 .. i : s[x] \in Whitespace
          /\ \A x \in (Len(s) - j + 1) .. Len(s) : s[x] \in Whitespace

\* C12: the parsed value of every section whose header occurs in the reply is
\* the whitespace-trimmed text between the first occurrence of its header and
\* the next occurrence of one of the other four headers, or the end of the
\* text; the reply "# Overview\nHello" yields exactly {overview: "Hello"}.
C12_SectionText ==
    pc = "parsed" =>
        /\ \A k \in SectionKeys :
              HeaderOf(k) \in Range(ai_outcome.reply) =>
                  /\ k \in DOMAIN ai_result
                  /\ IsTrimOf(ai_result[k], BetweenHeaders(ai_outcome.reply, k))
        /\ ai_outcome.reply = <<"# Overview", "\n", "Hello">> =>
              ai_result = [k \in {"overview"} |-> <<"Hello">>]

\* a text has been parsed in which a section's own header is repeated inside
\* its body, with whitespace to trim
C12_Witness ==
    /\ pc = "parsed"
    /\ ai_outcome.reply = <<"# Patterns", " ", "# Patterns">>
    /\ ai_result = [k \in {"patterns"} |-> <<"# Patterns">>]

-----------------------------------------------------------------------------
\* path matches one of the patterns of category c
MatchesCategory(path, c) ==
    \E i \in DOMAIN PatternsOf(c) : re_search(PatternsOf(c)[i], path)

\* C13: the entry-point map holds no category with an empty path list; a
\* category is present exactly when at least one FileRecord path matches one
\* of the category's patterns.
C13_NoEmptyCategory ==
    pc = "classified" =>
        /\ \A c \in DOMAIN architecture_data.entry_points :
              architecture_data.entry_points[c] /= <<>>
        /\ \A c \in EntryCategories :
              c \in DOMAIN architecture_data.entry_points
                  <=> \E q \in DOMAIN file_data : MatchesCategory(q, c)

\* a table was classified that left one category present and another absent
C13_Witness ==
    /\ pc = "classified"
    /\ DOMAIN file_data /= {}
    /\ "config" \in DOMAIN architecture_data.entry_points
    /\ "cli" \notin DOMAIN architecture_data.entry_points

\* the classifier without the `break`: every matching pattern appends
RECURSIVE CheckPatternsNoBreak(_, _, _)
CheckPatternsNoBreak(list, patterns, path) ==
    IF patterns = <<>> THEN list
    ELSE CheckPatternsNoBreak(
             IF re_search(Head(patterns), path) THEN Append(list, path) ELSE list,
             Tail(patterns), path)

RECURSIVE ClassifyIntoNoBreak(_, _, _)
ClassifyIntoNoBreak(list, keys, patterns) ==
    IF keys = <<>> THEN list
    ELSE ClassifyIntoNoBreak(CheckPatternsNoBreak(list, patterns, Head(keys)),
                             Tail(keys), patterns)

EntryPointsNoBreak(keys) ==
    LET all == [c \in EntryCategories |-> ClassifyIntoNoBreak(<<>>, keys, PatternsOf(c))]
    IN  [k \in {c \in EntryCategories : all[c] /= <<>>} |-> all[k]]

\* C18 as stated: the classifier with the early exit and the one without it
\* return the same map, with the same categories and the same path lists.
C18_SameMap ==
    pc = "classified" =>
        architecture_data.entry_points = EntryPointsNoBreak(key_order)

\* C18 amended: the two classifiers return the same categories and, for each
\* category, the same set of paths in the same order of first appearance; with
\* the early exit every path is listed once in a category, without it once
\* for each pattern of the category that it matches.
C18_SamePathSets ==
    pc = "classified" =>
        LET with == architecture_data.entry_points
            without == EntryPointsNoBreak(key_order)
        IN  /\ DOMAIN with = DOMAIN without
            /\ \A c \in DOMAIN with :
                  /\ Range(with[c]) = Range(without[c])
                  /\ \A i, j \in DOMAIN with[c] : with[c][i] = with[c][j] => i = j
                  /\ \A q \in Range(with[c]) :
                        Cardinality({ i \in DOMAIN without[c] : without[c][i] = q }) =
                        Cardinality({ i \in DOMAIN PatternsOf(c) :
                                        re_search(PatternsOf(c)[i], q) })
                  /\ with[c] = SelectSeq(key_order, LAMBDA q : q \in Range(without[c]))

\* a table was classified in which one path matches two patterns of a category
C18_Witness ==
    /\ pc = "classified"
    /\ \E c \in DOMAIN architecture_data.entry_points :
          /\ Len(architecture_data.entry_points[c]) >= 2
          /\ Len(EntryPointsNoBreak(key_order)[c]) > Len(architecture_data.entry_points[c])

-----------------------------------------------------------------------------
JsTable == Get(architecture_data.dependencies, "javascript", <<>>)
PyTable == Get(architecture_data.dependencies, "python", <<>>)

\* the sampled files of the given extensions
FilesOfExts(fp, exts) == UNION { Range(fp[e]) : e \in DOMAIN fp \cap exts }

\* the import specifiers of one sampled file that count for an ecosystem
CountedImports(file, js) ==
    IF js THEN { imp \in extract_js_imports(<<file>>) : ~IsRelative(imp) }
    ELSE extract_python_imports(<<file>>)

LangExts(js) == IF js THEN JsExts ELSE {"py"}

\* the import-derived tally of a package: the counted specifiers of all
\* sampled files whose first segment is the package
ImportTally(fp, js, pkg) ==
    Cardinality(UNION { { <<f.path, imp>> : imp \in { x \in CountedImports(f, js) :
                                                       TopLevel(x) = pkg } } :
                        f \in FilesOfExts(fp, LangExts(js)) })

\* the top-level packages the import statements of a file name, whatever the
\* form of the statement; relative JS/TS specifiers name none
ReferencedPackages(file, js) ==
    { TopLevel(st.id) : st \in { x \in Range(file.content.stmts) :
                                   /\ x.kind \in {"import", "import_from", "from"}
                                   /\ ~(js /\ IsRelative(x.id)) } }

\* the sampled files that reference a package
FilesReferencing(fp, js, pkg) ==
    Cardinality({ f \in FilesOfExts(fp, LangExts(js)) : pkg \in ReferencedPackages(f, js) })

AllReferenced(fp, js) ==
    UNION { ReferencedPackages(f, js) : f \in FilesOfExts(fp, LangExts(js)) }

ImportedPackages(fp, js) ==
    { TopLevel(imp) : imp \in UNION { CountedImports(f, js) : f \in FilesOfExts(fp, LangExts(js)) } }

\* what package.json declares when it loads
Declared(pj) == UNION { pj.sections[n].keys : n \in DOMAIN pj.sections }

Loads(pj) == pj.state = "parsed" /\ \A n \in DOMAIN pj.sections : pj.sections[n].mapping

\* C14: every package key of the dependency table has an integer count of at
\* least 1, and no ecosystem with an empty table is present.
C14_CountsPositive ==
    pc = "tallied" =>
        \A eco \in DOMAIN architecture_data.dependencies :
            /\ DOMAIN architecture_data.dependencies[eco] /= {}
            /\ \A pkg \in DOMAIN architecture_data.dependencies[eco] :
                  /\ architecture_data.dependencies[eco][pkg] \in Int
                  /\ architecture_data.dependencies[eco][pkg] >= 1

\* a table with a seeded package, an imported package and a requirement, and
\* without the ecosystems that stayed empty
C14_Witness ==
    /\ pc = "tallied"
    /\ DOMAIN architecture_data.dependencies = {"javascript", "python"}
    /\ Loads(manifests.package_json)
    /\ manifests.req_files["requirements.txt"].state = "readable"
    /\ \E pkg \in DOMAIN JsTable : pkg \notin Declared(manifests.package_json)
    /\ \E pkg \in DOMAIN PyTable : PyTable[pkg] >= 2
    /\ "go" \in DOMAIN file_patterns

\* C15 as stated: the import tally adds, for every sampled file, one occurrence
\* per distinct top-level package the file references, so that without
\* manifests a package's count is the number of sampled files referencing it;
\* relative JS/TS specifiers add nothing.
C15_OncePerPackage ==
    pc = "tallied" =>
        /\ manifests.package_json.state = "absent" =>
              \A pkg \in DOMAIN JsTable \cup AllReferenced(file_patterns, TRUE) :
                  /\ ~IsRelative(pkg)
                  /\ Get(JsTable, pkg, 0) = FilesReferencing(file_patterns, TRUE, pkg)
        /\ manifests.req_files["requirements.txt"].state /= "readable" =>
              \A pkg \in DOMAIN PyTable \cup AllReferenced(file_patterns, FALSE) :
                  Get(PyTable, pkg, 0) = FilesReferencing(file_patterns, FALSE, pkg)

\* C16: a JavaScript package declared in either or both sections of the
\* manifest is seeded at 1 and ends at 1 plus its import-derived tally; a
\* package seen only in imports ends at its import-derived tally; both kinds
\* are in the table together.
C16_SeedPlusTally ==
    (pc = "tallied" /\ Loads(manifests.package_json)) =>
        /\ SeedJavascript(<<>>, manifests.package_json) =
              [pkg \in Declared(manifests.package_json) |-> 1]
        /\ \A pkg \in Declared(manifests.package_json) :
              /\ pkg \in DOMAIN JsTable
              /\ JsTable[pkg] = 1 + ImportTally(file_patterns, TRUE, pkg)
        /\ \A pkg \in ImportedPackages(file_patterns, TRUE) \ Declared(manifests.package_json) :
              /\ pkg \in DOMAIN JsTable
              /\ JsTable[pkg] = ImportTally(file_patterns, TRUE, pkg)
        /\ DOMAIN JsTable =
              Declared(manifests.package_json) \cup ImportedPackages(file_patterns, TRUE)

\* a package declared in both sections and imported, next to one only imported
C16_Witness ==
    /\ pc = "tallied"
    /\ Loads(manifests.package_json)
    /\ DOMAIN manifests.package_json.sections = {"dependencies", "devDependencies"}
    /\ <<"lodash">> \in manifests.package_json.sections["dependencies"].keys
    /\ <<"lodash">> \in manifests.package_json.sections["devDependencies"].keys
    /\ ImportTally(file_patterns, TRUE, <<"lodash">>) >= 2
    /\ JsTable[<<"lodash">>] >= 3
    /\ <<"react-dom">> \in DOMAIN JsTable
    /\ <<"react-dom">> \notin Declared(manifests.package_json)

\* package.json is missing, unreadable or corrupt
BrokenPackageJson(pj) == ~Loads(pj)

\* requirements.txt is missing or unreadable
BrokenRequirements(rq) == rq.state /= "readable"

\* C17: a missing, unreadable or corrupt manifest does not abort the
\* aggregation: it contributes nothing, and the ecosystem's table is the
\* import-derived tally, exactly as with no manifest present.
C17_BrokenManifestIgnored ==
    pc = "tallied" =>
        /\ BrokenPackageJson(manifests.package_json) =>
              /\ JsTable = Get(identify_dependencies(NoManifests, file_patterns),
                               "javascript", <<>>)
              /\ JsTable = [pkg \in ImportedPackages(file_patterns, TRUE) |->
                              ImportTally(file_patterns, TRUE, pkg)]
        /\ BrokenRequirements(manifests.req_files["requirements.txt"]) =>
              /\ PyTable = Get(identify_dependencies(NoManifests, file_patterns),
                               "python", <<>>)
              /\ PyTable = [pkg \in ImportedPackages(file_patterns, FALSE) |->
                              ImportTally(file_patterns, FALSE, pkg)]

\* package.json parsed but its second section is not a mapping, the two
\* requirement files cannot be read, and both tallies came out
C17_Witness ==
    /\ pc = "tallied"
    /\ manifests.package_json.state = "parsed"
    /\ DOMAIN manifests.package_json.sections = {"dependencies", "devDependencies"}
    /\ manifests.package_json.sections["dependencies"].mapping
    /\ ~manifests.package_json.sections["devDependencies"].mapping
    /\ manifests.req_files["requirements.txt"].state = "unreadable"
    /\ manifests.req_files["Pipfile"].state = "unreadable"
    /\ DOMAIN architecture_data.dependencies = {"javascript", "python"}

====
